---- MODULE Spec2Model ----
(***************************************************************************)
(* Model of flaskmongorm/__init__.py: the sort/index string parser         *)
(* (get_sort), the uniqueness filter builder (get_uniq_spec), the class    *)
(* default values of BaseMixin (_get_default, get_class_attr, to_dict,     *)
(* __getitem__, __setitem__, __getattr__) and the session / error          *)
(* wrappers (with_session, _run, capture_errors and the write methods).    *)
(*                                                                         *)
(* A Python str is a sequence of one-character strings, a dict is a        *)
(* function, a list is a sequence, None is the record NoneV.               *)
(***************************************************************************)
EXTENDS Integers, Sequences, FiniteSets, TLC

VARIABLES
    sort, for_index, sort_ret,      \* get_sort: arguments and outcome
    fields, doc, uniq_ret,          \* get_uniq_spec: arguments and outcome
    classes,                        \* the __dict__ of each class of the chain
    objs,                           \* the model instances: class and __dict__
    last,                           \* the last call on a model and its result
    cfg,                            \* __use_transaction__, __support_transaction__
    pc,                             \* position of the running collection call
    frame,                          \* the running call: method and keyword arguments
    events,                         \* what the call did to the driver, in order
    result,                         \* what the driver action did
    outcome                         \* what the call gave its caller

sort_vars == <<sort, for_index, sort_ret>>
uniq_vars == <<fields, doc, uniq_ret>>
model_vars == <<classes, objs, last>>
run_vars == <<cfg, pc, frame, events, result, outcome>>
vars == <<sort_vars, uniq_vars, model_vars, run_vars>>

\* ------------------------------------------------------------------------
\* Python values and str methods
\* ------------------------------------------------------------------------
NoneV == [kind |-> "None"]
Pending == [tag |-> "pending"]

\* the characters str.strip() removes (ASCII whitespace)
Whitespace == {" ", "\t", "\n"}

UpperChars == <<"A","B","C","D","E","F","G","H","I","J","K","L","M",
                "N","O","P","Q","R","S","T","U","V","W","X","Y","Z">>
LowerChars == <<"a","b","c","d","e","f","g","h","i","j","k","l","m",
                "n","o","p","q","r","s","t","u","v","w","x","y","z">>

lower_char(c) ==
    IF \E i \in 1..Len(UpperChars) : UpperChars[i] = c
    THEN LowerChars[CHOOSE i \in 1..Len(UpperChars) : UpperChars[i] = c]
    ELSE c

\* str.lower()
lower(s) == [i \in 1..Len(s) |-> lower_char(s[i])]

RECURSIVE lstrip(_)
lstrip(s) ==
    IF s # <<>> /\ Head(s) \in Whitespace THEN lstrip(Tail(s)) ELSE s

RECURSIVE rstrip(_)
rstrip(s) ==
    IF s # <<>> /\ s[Len(s)] \in Whitespace
    THEN rstrip(SubSeq(s, 1, Len(s) - 1))
    ELSE s

\* str.strip()
strip(s) == rstrip(lstrip(s))

\* `c in s` for a one-character c
contains(s, c) == \E i \in 1..Len(s) : s[i] = c

\* str.split(sep) for a one-character sep: every occurrence splits and the
\* empty strings between adjacent separators are kept
RECURSIVE split(_, _)
split(s, sep) ==
    IF ~contains(s, sep) THEN <<s>>
    ELSE LET i == CHOOSE j \in 1..Len(s) :
                      s[j] = sep /\ \A k \in 1..(j - 1) : s[k] # sep
         IN  <<SubSeq(s, 1, i - 1)>> \o split(SubSeq(s, i + 1, Len(s)), sep)

\* str.replace("  ", " "): one left-to-right pass over non-overlapping
\* occurrences of two spaces
RECURSIVE replace_2sp(_)
replace_2sp(s) ==
    IF Len(s) < 2 THEN s
    ELSE IF s[1] = " " /\ s[2] = " "
         THEN <<" ">> \o replace_2sp(SubSeq(s, 3, Len(s)))
         ELSE <<s[1]>> \o replace_2sp(Tail(s))

\* lst[:n]
take(lst, n) == SubSeq(lst, 1, IF Len(lst) < n THEN Len(lst) ELSE n)

\* ------------------------------------------------------------------------
\* INDEX_NAMES / SORT_NAMES
\* ------------------------------------------------------------------------
s_asc        == <<"a","s","c">>
s_ascending  == <<"a","s","c","e","n","d","i","n","g">>
s_desc       == <<"d","e","s","c">>
s_descending == <<"d","e","s","c","e","n","d","i","n","g">>
s_geo2d      == <<"g","e","o","2","d">>
s_geosphere  == <<"g","e","o","s","p","h","e","r","e">>
s_hashed     == <<"h","a","s","h","e","d">>
s_text       == <<"t","e","x","t">>

SORT_NAMES ==
    [k \in {s_asc, s_ascending, s_desc, s_descending} |->
        IF k \in {s_asc, s_ascending} THEN "ASCENDING" ELSE "DESCENDING"]

INDEX_NAMES ==
    [k \in {s_asc, s_ascending, s_desc, s_descending,
            s_geo2d, s_geosphere, s_hashed, s_text} |->
        CASE k \in {s_asc, s_ascending}   -> "ASCENDING"
          [] k \in {s_desc, s_descending} -> "DESCENDING"
          [] k = s_geo2d                  -> "GEO2D"
          [] k = s_geosphere              -> "GEOSPHERE"
          [] k = s_hashed                 -> "HASHED"
          [] k = s_text                   -> "TEXT"]

\* ------------------------------------------------------------------------
\* get_sort
\* ------------------------------------------------------------------------
Return(shape, v) == [tag |-> "return", shape |-> shape, val |-> v]
Raise(exc, arg)  == [tag |-> "raise", exc |-> exc, arg |-> arg]

\* names = INDEX_NAMES if for_index else SORT_NAMES
\* (variant: the index table in both modes)
names_always_index(fi) == INDEX_NAMES
names(fi) == IF fi THEN INDEX_NAMES ELSE SORT_NAMES

\* names[key]: the value, or KeyError
names_lookup(tbl, key) ==
    IF key \in DOMAIN tbl THEN [ok |-> TRUE, val |-> tbl[key]]
    ELSE [ok |-> FALSE, err |-> Raise("KeyError", key)]

\* the body of `if item:` for one stripped, non-empty item: the pair that
\* is appended to lst, or the KeyError of the names lookup
sort_item(item, tbl) ==
    IF contains(item, " ")
    THEN LET two   == take(split(replace_2sp(item), " "), 2)
             field == two[1]
             _sort == two[2]
             dir   == names_lookup(tbl, lower(_sort))
         IN  IF dir.ok THEN [ok |-> TRUE, val |-> <<field, dir.val>>]
             ELSE dir
    ELSE [ok |-> TRUE, val |-> <<item, tbl[s_asc]>>]

\* for item in items.split(","): the list lst, or the first error
RECURSIVE sort_items(_, _, _)
sort_items(parts, tbl, lst) ==
    IF parts = <<>> THEN [ok |-> TRUE, val |-> lst]
    ELSE LET item == strip(Head(parts))
         IN  IF item # <<>>
             THEN LET p == sort_item(item, tbl)
                  IN  IF p.ok
                      THEN sort_items(Tail(parts), tbl, Append(lst, p.val))
                      ELSE p
             ELSE sort_items(Tail(parts), tbl, lst)

\* for items in sort.strip().split(";"): the list sorts, or the first error
RECURSIVE sort_groups(_, _, _)
sort_groups(groups, tbl, sorts) ==
    IF groups = <<>> THEN [ok |-> TRUE, val |-> sorts]
    ELSE LET items == strip(Head(groups))
         IN  IF items # <<>>
             THEN LET l == sort_items(split(items, ","), tbl, <<>>)
                  IN  IF ~l.ok THEN l
                      ELSE IF l.val # <<>>
                           THEN sort_groups(Tail(groups), tbl,
                                            Append(sorts, l.val))
                           ELSE sort_groups(Tail(groups), tbl, sorts)
             ELSE sort_groups(Tail(groups), tbl, sorts)

\* return sorts[0] if len(sorts) == 1 else sorts
\* (variant: no collapse of a single SortSpec)
sort_result_always_list(sorts) == Return("list", sorts)
sort_result(sorts) ==
    IF Len(sorts) = 1 THEN Return("spec", sorts[1]) ELSE Return("list", sorts)

get_sort(s, fi) ==
    IF s.kind = "None" \/ (s.kind = "list" /\ ~fi)
    THEN Return(s.kind, s)
    ELSE IF s.kind = "list"
         THEN Raise("AttributeError", <<>>)     \* a list has no strip()
         ELSE LET r == sort_groups(split(strip(s.v), ";"), names(fi), <<>>)
              IN  IF r.ok THEN sort_result(r.val) ELSE r.err

\* ------------------------------------------------------------------------
\* Inputs of get_sort: None, an already structured list, and the strings
\* made of at most MaxPieces pieces
\* ------------------------------------------------------------------------
MaxPieces == 5

SortPieces == { <<"a">>, <<"b">>, <<" ">>, <<",">>, <<";">>,
                <<"A","s","c">>, <<"D","E","S","C">>, s_hashed }

RECURSIVE concat(_)
concat(ps) == IF ps = <<>> THEN <<>> ELSE Head(ps) \o concat(Tail(ps))

PieceSeqs(P, n) == UNION { [1..m -> P] : m \in 0..n }

SortStrings == { concat(ps) : ps \in PieceSeqs(SortPieces, MaxPieces) }

StrV(s)  == [kind |-> "str", v |-> s]
ListV(l) == [kind |-> "list", v |-> l]

SortInputs ==
    {NoneV, ListV(<< <<(<<"a">>), "DESCENDING">> >>)}
        \cup { StrV(s) : s \in SortStrings }

SortIdle ==
    /\ sort = NoneV
    /\ for_index = FALSE
    /\ sort_ret = Pending

UniqIdle ==
    /\ fields = <<>>
    /\ doc = <<>>
    /\ uniq_ret = Pending

ModelIdle ==
    /\ classes = <<>>
    /\ objs = <<>>
    /\ last = Pending

RunIdle ==
    /\ cfg = [use_transaction |-> FALSE, support_transaction |-> FALSE]
    /\ pc = "idle"
    /\ frame = Pending
    /\ events = <<>>
    /\ result = Pending
    /\ outcome = Pending

SortInit ==
    /\ sort \in SortInputs
    /\ for_index \in BOOLEAN
    /\ sort_ret = Pending
    /\ UniqIdle
    /\ ModelIdle
    /\ RunIdle

\* BaseMixin.get_sort / _parse_find_options / find_one_and_* call
\* get_sort(sort); parse_indexes / create_index call it with for_index=True
GetSort ==
    /\ sort_ret = Pending
    /\ sort_ret' = get_sort(sort, for_index)
    /\ UNCHANGED <<sort, for_index, uniq_vars, model_vars, run_vars>>

SortNext == GetSort

SpecSort == SortInit /\ [][SortNext]_vars

\* ------------------------------------------------------------------------
\* Properties of get_sort
\* ------------------------------------------------------------------------
SortDone == sort_ret # Pending
SortOfStr == SortDone /\ sort.kind = "str"

SortTokens  == {s_asc, s_ascending, s_desc, s_descending}
IndexTokens == SortTokens \cup {s_geo2d, s_geosphere, s_hashed, s_text}
Applicable(fi) == IF fi THEN IndexTokens ELSE SortTokens

Direction(tok) ==
    CASE tok \in {s_asc, s_ascending}   -> "ASCENDING"
      [] tok \in {s_desc, s_descending} -> "DESCENDING"
      [] tok = s_geo2d                  -> "GEO2D"
      [] tok = s_geosphere              -> "GEOSPHERE"
      [] tok = s_hashed                 -> "HASHED"
      [] tok = s_text                   -> "TEXT"

IsWord(w) == w # <<>> /\ \A i \in 1..Len(w) : w[i] \notin {" ", ",", ";"}
AllSpaces(w) == w # <<>> /\ \A i \in 1..Len(w) : w[i] = " "
NoSeparator(w) == \A i \in 1..Len(w) : w[i] \notin {",", ";"}

\* item = field, spaces, token, and then nothing or a space and more text
FieldSpacesToken(item, i, j, k) ==
    /\ 1 <= i /\ i < j /\ j <= k /\ k <= Len(item)
    /\ IsWord(SubSeq(item, 1, i))
    /\ AllSpaces(SubSeq(item, i + 1, j - 1))
    /\ IsWord(SubSeq(item, j, k))
    /\ \/ k = Len(item)
       \/ item[k + 1] = " " /\ NoSeparator(SubSeq(item, k + 1, Len(item)))

\* C2: an item made of a field, one or more interior spaces, a valid
\* direction token and optional further tokens parses to the pair
\* (field, direction of the second token) and does not fail.
C2_AnySpacesParse ==
    SortOfStr =>
        LET item == strip(sort.v)
        IN  \A i, j, k \in 1..Len(item) :
                ( FieldSpacesToken(item, i, j, k)
                  /\ lower(SubSeq(item, j, k)) \in Applicable(for_index) )
                => sort_ret = Return("spec",
                       << <<SubSeq(item, 1, i),
                            Direction(lower(SubSeq(item, j, k)))>> >>)

\* the directions of a returned value
SpecsOf(r) == IF r.shape = "spec" THEN <<r.val>> ELSE r.val
DirectionsOf(r) ==
    UNION { { SpecsOf(r)[n][m][2] : m \in 1..Len(SpecsOf(r)[n]) } :
            n \in 1..Len(SpecsOf(r)) }

\* C3: the direction token is lower-cased and looked up in the table of the
\* mode: a token of the applicable set gives its canonical direction in any
\* letter case, any other token makes the parse fail with a KeyError and no
\* value is returned; the sort mode accepts asc, ascending, desc,
\* descending only, the index mode geo2d, geosphere, hashed, text as well.
C3_DirectionResolution ==
    SortOfStr =>
        /\ LET item == strip(sort.v)
           IN  \A i \in 1..Len(item) :
                   ( /\ i < Len(item)
                     /\ item[i + 1] = " "
                     /\ IsWord(SubSeq(item, 1, i))
                     /\ IsWord(SubSeq(item, i + 2, Len(item))) )
                   => LET tok == lower(SubSeq(item, i + 2, Len(item)))
                      IN  IF tok \in Applicable(for_index)
                          THEN sort_ret = Return("spec",
                                   << <<SubSeq(item, 1, i), Direction(tok)>> >>)
                          ELSE sort_ret = Raise("KeyError", tok)
        /\ (sort_ret.tag = "raise" /\ sort_ret.exc = "KeyError")
               => sort_ret.arg \notin Applicable(for_index)
        /\ sort_ret.tag = "return"
               => DirectionsOf(sort_ret) \subseteq
                      { Direction(t) : t \in Applicable(for_index) }

C3_Witness ==
    /\ sort = StrV(<<"a", " ">> \o s_hashed)
    /\ ~for_index
    /\ sort_ret = Raise("KeyError", s_hashed)

NonBlank(it) == strip(it) # <<>>
ItemsOfGroup(g) == SelectSeq(split(g, ","), NonBlank)
Productive(g) == ItemsOfGroup(g) # <<>>
ProductiveGroups(s) == SelectSeq(split(s, ";"), Productive)
FieldOf(it) ==
    IF contains(it, " ")
    THEN SubSeq(it, 1, (CHOOSE j \in 1..Len(it) :
                            it[j] = " " /\ \A k \in 1..(j - 1) : it[k] # " ") - 1)
    ELSE it

\* C4: each ';'-separated group with at least one non-empty item becomes
\* one SortSpec, in group order, with one pair per non-empty item in item
\* order; the result is the bare SortSpec when exactly one was produced and
\* the list of SortSpecs otherwise.
C4_GroupsAndShape ==
    (SortOfStr /\ sort_ret.tag = "return") =>
        LET pg == ProductiveGroups(sort.v)
            L  == SpecsOf(sort_ret)
        IN  /\ sort_ret.shape = (IF Len(pg) = 1 THEN "spec" ELSE "list")
            /\ Len(L) = Len(pg)
            /\ \A n \in 1..Len(pg) :
                   LET its == ItemsOfGroup(pg[n])
                   IN  /\ Len(L[n]) = Len(its)
                       /\ \A m \in 1..Len(its) :
                              L[n][m][1] = FieldOf(strip(its[m]))

C4_Witness ==
    /\ sort = StrV(<<"a", " ", "D","E","S","C", ";", "b">>)
    /\ sort_ret = Return("list", << << <<(<<"a">>), "DESCENDING">> >>,
                                   << <<(<<"b">>), "ASCENDING">> >> >>)

\* ------------------------------------------------------------------------
\* get_uniq_spec
\* ------------------------------------------------------------------------
\* [f.strip() for f in field.split(",") if f.strip()]
RECURSIVE stripped_nonempty(_)
stripped_nonempty(parts) ==
    IF parts = <<>> THEN <<>>
    ELSE IF strip(Head(parts)) # <<>>
         THEN <<strip(Head(parts))>> \o stripped_nonempty(Tail(parts))
         ELSE stripped_nonempty(Tail(parts))

\* d[k] = v
dict_set(d, k, v) ==
    [x \in (DOMAIN d) \cup {k} |-> IF x = k THEN v ELSE d[x]]

\* for k in ...: if k in doc: spec[k] = doc[k]
RECURSIVE uniq_group(_, _, _)
uniq_group(ks, d, spec) ==
    IF ks = <<>> THEN spec
    ELSE IF Head(ks) \in DOMAIN d
         THEN uniq_group(Tail(ks), d, dict_set(spec, Head(ks), d[Head(ks)]))
         ELSE uniq_group(Tail(ks), d, spec)

\* `if spec:`: a dict is true when it is not empty
\* (variant: every sub-filter is appended)
spec_kept_always(spec) == TRUE
spec_kept(spec) == DOMAIN spec # {}

\* for field in fields: ... specs.append(spec)
RECURSIVE uniq_specs(_, _, _)
uniq_specs(fs, d, specs) ==
    IF fs = <<>> THEN specs
    ELSE LET spec == uniq_group(stripped_nonempty(split(Head(fs), ",")),
                                d, <<>>)
         IN  IF spec_kept(spec)
             THEN uniq_specs(Tail(fs), d, Append(specs, spec))
             ELSE uniq_specs(Tail(fs), d, specs)

\* return {"$or": specs} if specs else None
get_uniq_spec(fs, d) ==
    LET specs == uniq_specs(fs, d, <<>>)
    IN  IF specs # <<>> THEN Return("dict", [or |-> specs])
        ELSE Return("None", NoneV)

\* ------------------------------------------------------------------------
\* Inputs of get_uniq_spec: the lists of field groups written with at most
\* MaxUniqChars characters ("|" ends a list element), and the candidate
\* documents over the fields e and u
\* ------------------------------------------------------------------------
MaxUniqChars == 5

UniqChars == {"e", "u", ",", " ", "|"}

FieldLists ==
    { split(cs, "|") : cs \in PieceSeqs(UniqChars, MaxUniqChars) \ {<<>>} }
        \cup {<<>>}

DocKeys == { <<"e">>, <<"u">> }
DocValues == {1, 2}
Docs == UNION { [ks -> DocValues] : ks \in SUBSET DocKeys }

UniqInit ==
    /\ fields \in FieldLists
    /\ doc \in Docs
    /\ uniq_ret = Pending
    /\ SortIdle
    /\ ModelIdle
    /\ RunIdle

GetUniqSpec ==
    /\ uniq_ret = Pending
    /\ uniq_ret' = get_uniq_spec(fields, doc)
    /\ UNCHANGED <<fields, doc, sort_vars, model_vars, run_vars>>

UniqNext == GetUniqSpec

SpecUniq == UniqInit /\ [][UniqNext]_vars

\* ------------------------------------------------------------------------
\* Properties of get_uniq_spec
\* ------------------------------------------------------------------------
UniqDone == uniq_ret # Pending

\* the fields a group lists
Listed(g) == { strip(split(g, ",")[i]) : i \in 1..Len(split(g, ",")) } \ {<<>>}
AllPresent(g) == Listed(g) # {} /\ Listed(g) \subseteq DOMAIN doc
SomePresent(g) == Listed(g) \cap DOMAIN doc # {}
SubFilters(r) == IF r.shape = "None" THEN <<>> ELSE r.val.or

\* C1: a group contributes a sub-filter only if every field it lists is a
\* key of the candidate; a group with a listed field absent from the
\* candidate is dropped entirely.
C1_OnlyCompleteGroups ==
    UniqDone =>
        LET full == SelectSeq(fields, AllPresent)
        IN  /\ Len(SubFilters(uniq_ret)) = Len(full)
            /\ \A n \in 1..Len(full) :
                   DOMAIN SubFilters(uniq_ret)[n] = Listed(full[n])

\* C8: the result is None exactly when no group lists a key of the
\* candidate; otherwise it is the $or of one sub-filter per contributing
\* group, in group order, each mapping its fields to the candidate's
\* values, and no sub-filter is empty.
C8_NullOrDisjunction ==
    UniqDone =>
        LET contrib == SelectSeq(fields, SomePresent)
            subs    == SubFilters(uniq_ret)
        IN  /\ (uniq_ret.shape = "None") <=> (\A i \in 1..Len(fields) :
                                                 ~SomePresent(fields[i]))
            /\ Len(subs) = Len(contrib)
            /\ \A n \in 1..Len(contrib) :
                   /\ DOMAIN subs[n] = Listed(contrib[n]) \cap DOMAIN doc
                   /\ DOMAIN subs[n] # {}
                   /\ \A k \in DOMAIN subs[n] : subs[n][k] = doc[k]

C8_Witness ==
    /\ UniqDone
    /\ fields = << <<"u">>, <<"e">> >>
    /\ doc = [k \in {<<"e">>} |-> 2]
    /\ uniq_ret = Return("dict", [or |-> << [k \in {<<"e">>} |-> 2] >>])

\* ------------------------------------------------------------------------
\* Classes and instances.  A class is the part of its __dict__ the code
\* reads: whether it declares __default_values__ and the declared dict.
\* classes is the __mro__ of the most derived class: the user classes, then
\* BaseModel (which declares {}), BaseMixin and object (which declare
\* nothing); the __mro__ of the class at position n is the chain from n on.
\* ------------------------------------------------------------------------
Some(v) == [kind |-> "val", v |-> v]

Declares(dv) == [has_dv |-> TRUE, dv |-> dv]
NoDefaults   == [has_dv |-> FALSE, dv |-> <<>>]
BaseModel    == Declares(<<>>)
BaseMixin    == NoDefaults
object       == NoDefaults

mro_of(n) == SubSeq(classes, n, Len(classes))

\* kls.__dict__.get("__default_values__", {})
own_defaults(kls) == IF kls.has_dv THEN kls.dv ELSE <<>>

\* _get_default: the first class of the __mro__ whose own
\* __default_values__ has the key
\* (variant: the least derived declaring class wins)
RECURSIVE _get_default_last(_, _)
_get_default_last(mro, key) ==
    IF mro = <<>> THEN NoneV
    ELSE IF key \in DOMAIN own_defaults(mro[Len(mro)])
         THEN Some(mro[Len(mro)].dv[key])
         ELSE _get_default_last(SubSeq(mro, 1, Len(mro) - 1), key)

RECURSIVE _get_default(_, _)
_get_default(mro, key) ==
    IF mro = <<>> THEN NoneV
    ELSE IF key \in DOMAIN own_defaults(Head(mro))
         THEN Some(Head(mro).dv[key])
         ELSE _get_default(Tail(mro), key)

\* d.setdefault(k, v) for every item of src
dict_setdefault_all(d, src) ==
    [k \in (DOMAIN d) \cup (DOMAIN src) |->
        IF k \in DOMAIN d THEN d[k] ELSE src[k]]

\* d.update(src)
dict_update(d, src) ==
    [k \in (DOMAIN d) \cup (DOMAIN src) |->
        IF k \in DOMAIN src THEN src[k] ELSE d[k]]

\* get_class_attr(name, include_parents, attr_type) for
\* name = "__default_values__" and a dict attr_type
\* (variant: data.update instead of data.setdefault)
RECURSIVE get_class_attr_update(_, _, _)
get_class_attr_update(mro, include_parents, data) ==
    IF mro = <<>> THEN data
    ELSE LET d1 == IF Head(mro).has_dv
                   THEN dict_update(data, Head(mro).dv)
                   ELSE data
         IN  IF ~include_parents THEN d1
             ELSE get_class_attr_update(Tail(mro), include_parents, d1)

RECURSIVE get_class_attr(_, _, _)
get_class_attr(mro, include_parents, data) ==
    IF mro = <<>> THEN data
    ELSE LET d1 == IF Head(mro).has_dv
                   THEN dict_setdefault_all(data, Head(mro).dv)
                   ELSE data
         IN  IF ~include_parents THEN d1
             ELSE get_class_attr(Tail(mro), include_parents, d1)

get_all_defaults(mro) == get_class_attr(mro, TRUE, <<>>)

\* A method call on an instance gives the instance's __dict__ after the
\* call (self) and the value returned (ret).

\* __getitem__: self.__dict__.get(key, self._get_default(key))
getitem(self, mro, key) ==
    [self |-> self,
     ret  |-> IF key \in DOMAIN self THEN Some(self[key])
              ELSE _get_default(mro, key)]

\* attribute access: __getattr__ runs only when the normal lookup finds
\* nothing, and the normal lookup reads the instance __dict__ first (key is
\* a field name, not the name of a class attribute or method)
getattr(self, mro, key) ==
    [self |-> self,
     ret  |-> IF key \in DOMAIN self THEN Some(self[key])
              ELSE _get_default(mro, key)]

\* __setitem__: self.__dict__[key] = value
setitem(self, key, value) ==
    [self |-> dict_set(self, key, value), ret |-> NoneV]

dict_only(d, ks) == [k \in (DOMAIN d) \cap ks |-> d[k]]

\* to_dict: d is a copy (deep or shallow) of self.__dict__
to_dict_result(d0, mro, include_defaults, extras, excludes, onlys) ==
    LET d1 == IF include_defaults
              THEN dict_setdefault_all(d0, get_all_defaults(mro))
              ELSE d0
        d2 == dict_update(d1, extras)
    IN  [d |-> d2,
         ret |-> IF onlys # {} THEN dict_only(d2, onlys)
                 ELSE dict_only(d2, (DOMAIN d2) \ excludes)]

\* (variant: d is self.__dict__ itself)
to_dict_no_copy(self, mro, include_defaults, deep, extras, excludes, onlys) ==
    LET r == to_dict_result(self, mro, include_defaults, extras,
                            excludes, onlys)
    IN  [self |-> r.d, ret |-> r.ret]

to_dict(self, mro, include_defaults, deep, extras, excludes, onlys) ==
    LET d == self       \* copy.deepcopy / copy.copy: a new dict, equal to self
        r == to_dict_result(d, mro, include_defaults, extras,
                            excludes, onlys)
    IN  [self |-> self, ret |-> r.ret]

\* ------------------------------------------------------------------------
\* Calls on models
\* ------------------------------------------------------------------------
Keys   == { "status", "name" }
Values == { 1, 2 }
Dicts  == UNION { [ks -> Values] : ks \in SUBSET Keys }

\* number of user classes of the chain
Depth == 3

Chains ==
    { [n \in 1..(Depth + 3) |->
          IF n <= Depth THEN Declares(dvs[n])
          ELSE IF n = Depth + 1 THEN BaseModel
          ELSE IF n = Depth + 2 THEN BaseMixin ELSE object]
      : dvs \in [1..Depth -> Dicts] }

set_obj(o, self) == [objs EXCEPT ![o].d = self]

GetItem(o, key) ==
    LET r == getitem(objs[o].d, mro_of(objs[o].cls), key)
    IN  /\ objs' = set_obj(o, r.self)
        /\ last' = [op |-> "getitem", obj |-> o, key |-> key, ret |-> r.ret]
        /\ UNCHANGED classes

GetAttr(o, key) ==
    LET r == getattr(objs[o].d, mro_of(objs[o].cls), key)
    IN  /\ objs' = set_obj(o, r.self)
        /\ last' = [op |-> "getattr", obj |-> o, key |-> key, ret |-> r.ret]
        /\ UNCHANGED classes

SetItem(o, key, value) ==
    LET r == setitem(objs[o].d, key, value)
    IN  /\ objs' = set_obj(o, r.self)
        /\ last' = [op |-> "setitem", obj |-> o, key |-> key, ret |-> r.ret]
        /\ UNCHANGED classes

ToDict(o, include_defaults, deep, extras, excludes, onlys) ==
    LET r == to_dict(objs[o].d, mro_of(objs[o].cls), include_defaults,
                     deep, extras, excludes, onlys)
    IN  /\ objs' = set_obj(o, r.self)
        /\ last' = [op |-> "to_dict", obj |-> o,
                    include_defaults |-> include_defaults,
                    extras |-> extras, excludes |-> excludes,
                    onlys |-> onlys, ret |-> r.ret]
        /\ UNCHANGED classes

GetAllDefaults(n) ==
    /\ last' = [op |-> "get_all_defaults", cls |-> n,
                ret |-> get_all_defaults(mro_of(n))]
    /\ UNCHANGED <<classes, objs>>

\* Default values: one call on an instance of the most derived class
\* (constructed with any keyword arguments) or on a class of the chain.
DefaultsInit ==
    /\ classes \in Chains
    /\ objs \in [{1} -> [cls : {1}, d : Dicts]]
    /\ last = Pending
    /\ SortIdle
    /\ UniqIdle
    /\ RunIdle

DefaultsGetItem ==
    /\ last = Pending
    /\ \E key \in Keys : GetItem(1, key)
    /\ UNCHANGED <<sort_vars, uniq_vars, run_vars>>

DefaultsGetAttr ==
    /\ last = Pending
    /\ \E key \in Keys : GetAttr(1, key)
    /\ UNCHANGED <<sort_vars, uniq_vars, run_vars>>

DefaultsGetAllDefaults ==
    /\ last = Pending
    /\ \E n \in 1..Len(classes) : GetAllDefaults(n)
    /\ UNCHANGED <<sort_vars, uniq_vars, run_vars>>

DefaultsNext ==
    \/ DefaultsGetItem
    \/ DefaultsGetAttr
    \/ DefaultsGetAllDefaults

SpecDefaults == DefaultsInit /\ [][DefaultsNext]_vars

\* ------------------------------------------------------------------------
\* Properties of the default values
\* ------------------------------------------------------------------------
DeclaresKey(n, key) == classes[n].has_dv /\ key \in DOMAIN classes[n].dv
FirstOwner(n, key) ==
    CHOOSE m \in n..Len(classes) :
        DeclaresKey(m, key) /\ \A j \in n..(m - 1) : ~DeclaresKey(j, key)
Declared(n, key) == \E m \in n..Len(classes) : DeclaresKey(m, key)
Resolved(n, key) ==
    IF Declared(n, key) THEN Some(classes[FirstOwner(n, key)].dv[key])
    ELSE NoneV

\* C5: reading a key the instance does not hold returns the value of the
\* most derived class of the ancestry that declares the key in its own
\* default-map, None when no class declares it; a stored value takes
\* precedence over every default.
C5_ResolveDefault ==
    (last # Pending /\ last.op \in {"getitem", "getattr"}) =>
        LET o == objs[last.obj]
        IN  IF last.key \in DOMAIN o.d
            THEN last.ret = Some(o.d[last.key])
            ELSE last.ret = Resolved(o.cls, last.key)

C5_Witness ==
    /\ last # Pending /\ last.op = "getitem" /\ last.key = "status"
    /\ "status" \notin DOMAIN objs[1].d
    /\ ~DeclaresKey(1, "status")
    /\ DeclaresKey(2, "status") /\ DeclaresKey(3, "status")
    /\ classes[2].dv["status"] # classes[3].dv["status"]
    /\ last.ret = Some(classes[2].dv["status"])

\* C6: get_all_defaults has exactly the keys declared by some class of the
\* ancestry, each with the value of the most derived class declaring it,
\* so it agrees with _get_default on every key.
C6_CollectAllDefaults ==
    (last # Pending /\ last.op = "get_all_defaults") =>
        /\ DOMAIN last.ret = { k \in Keys : Declared(last.cls, k) }
        /\ \A k \in DOMAIN last.ret :
               /\ last.ret[k] = classes[FirstOwner(last.cls, k)].dv[k]
               /\ Some(last.ret[k]) = _get_default(mro_of(last.cls), k)
        /\ \A k \in Keys \ DOMAIN last.ret :
               _get_default(mro_of(last.cls), k) = NoneV

C6_Witness ==
    /\ last # Pending /\ last.op = "get_all_defaults" /\ last.cls = 1
    /\ DOMAIN classes[1].dv = {"status"}
    /\ DOMAIN classes[2].dv = {"status", "name"}
    /\ classes[1].dv["status"] # classes[2].dv["status"]
    /\ last.ret = [k \in Keys |-> IF k = "status" THEN classes[1].dv[k]
                                  ELSE classes[2].dv[k]]

\* ------------------------------------------------------------------------
\* Any sequence of calls on two instances, one of the most derived class
\* and one of its parent, both constructed without keyword arguments
\* ------------------------------------------------------------------------
FrameChains ==
    { c \in Chains : \A n \in 1..Depth :
          c[n].dv \in { <<>>, [k \in {"status"} |-> 1] } }

\* the values written by __setitem__
Written  == { 2 }

Extras   == { <<>>, [k \in {"name"} |-> 1] }
Excludes == { {}, {"status"} }
Onlys    == { {}, {"name"} }

FrameInit ==
    /\ classes \in FrameChains
    /\ objs = [o \in {1, 2} |-> [cls |-> o, d |-> <<>>]]
    /\ last = Pending
    /\ SortIdle
    /\ UniqIdle
    /\ RunIdle

FrameGetItem ==
    /\ \E o \in DOMAIN objs, key \in Keys : GetItem(o, key)
    /\ UNCHANGED <<sort_vars, uniq_vars, run_vars>>

FrameGetAttr ==
    /\ \E o \in DOMAIN objs, key \in Keys : GetAttr(o, key)
    /\ UNCHANGED <<sort_vars, uniq_vars, run_vars>>

FrameSetItem ==
    /\ \E o \in DOMAIN objs, key \in Keys, value \in Written :
           SetItem(o, key, value)
    /\ UNCHANGED <<sort_vars, uniq_vars, run_vars>>

FrameToDict ==
    /\ \E o \in DOMAIN objs, include_defaults \in BOOLEAN, deep \in BOOLEAN,
          extras \in Extras, excludes \in Excludes, onlys \in Onlys :
           ToDict(o, include_defaults, deep, extras, excludes, onlys)
    /\ UNCHANGED <<sort_vars, uniq_vars, run_vars>>

FrameGetAllDefaults ==
    /\ \E n \in 1..Len(classes) : GetAllDefaults(n)
    /\ UNCHANGED <<sort_vars, uniq_vars, run_vars>>

FrameNext ==
    \/ FrameGetItem
    \/ FrameGetAttr
    \/ FrameSetItem
    \/ FrameToDict
    \/ FrameGetAllDefaults

SpecFrame == FrameInit /\ [][FrameNext]_vars

SameExcept(d1, d0, ks) ==
    /\ (DOMAIN d1) \ ks = (DOMAIN d0) \ ks
    /\ \A k \in (DOMAIN d0) \ ks : d1[k] = d0[k]

\* C7: a read, to_dict or get_all_defaults leaves the fields stored on
\* every instance unchanged, a write changes only the written key of the
\* one instance written, and no call changes the default-map of a class.
C7_Frame ==
    [][ /\ classes' = classes
        /\ last'.op \in {"getitem", "getattr", "to_dict", "get_all_defaults"}
               => objs' = objs
        /\ last'.op = "setitem"
               => \A o \in DOMAIN objs :
                      /\ objs'[o].cls = objs[o].cls
                      /\ SameExcept(objs'[o].d, objs[o].d,
                                    IF o = last'.obj THEN {last'.key} ELSE {})
      ]_vars

C7_Witness ==
    /\ last # Pending /\ last.op = "to_dict" /\ last.include_defaults
    /\ "status" \in DOMAIN last.ret
    /\ "status" \notin DOMAIN objs[last.obj].d
    /\ "name" \in DOMAIN objs[last.obj].d

\* ------------------------------------------------------------------------
\* with_session, _run, capture_errors and the collection methods.
\* A keyword argument is "absent" or the Python value passed, written as a
\* string ("True", "False", "None", "1").  The session and the transaction
\* are the driver's context managers: entering them succeeds and leaving
\* them never swallows the exception of the body.
\* ------------------------------------------------------------------------
truthy(v) == v \notin {"False", "None", "0"}

\* kwargs.pop("capture_errors", True)
captures(kw) == IF kw = "absent" THEN TRUE ELSE truthy(kw)

\* with_session: no_session is not True, and
\* cls.__use_transaction__ and cls.__support_transaction__
\* (variant: __support_transaction__ is not consulted)
opens_session_unsupported(no_session, c) ==
    no_session # "True" /\ c.use_transaction
opens_session(no_session, c) ==
    no_session # "True" /\ c.use_transaction /\ c.support_transaction

\* kwargs.setdefault("session", sess)
session_kwarg(own_session) == IF own_session THEN "own" ELSE "sess"

\* f"{ex}"
str_of(ex) == [kind |-> "str", v |-> ex.msg]

\* capture_errors: try: return cls._run(...) / except Exception as ex:
\* return f"{ex}"; without capture the result of _run is the result
\* (variant: no except clause)
capture_errors_reraise(captured, r) == r
capture_errors(captured, r) ==
    IF captured /\ r.tag = "raise"
    THEN [tag |-> "return", val |-> str_of(r.exc)]
    ELSE r

\* the write methods call capture_errors with the name of the driver method
WriteMethods == { "insert_one", "insert_many", "update_one", "update_many",
                  "replace_one", "delete_one", "delete_many", "bulk_write" }
\* methods that call _run directly
RunMethods == { "find_one", "count_documents" }

\* save: update_one when self.id is true, insert_one otherwise;
\* destroy: delete_one
driver_action(method, has_id) ==
    CASE method = "save"    -> IF has_id THEN "update_one" ELSE "insert_one"
      [] method = "destroy" -> "delete_one"
      [] OTHER              -> method

Methods == WriteMethods \cup {"save", "destroy"} \cup RunMethods
KwCapture   == { "absent", "True", "False", "None" }
KwNoSession == { "absent", "True", "False", "1" }

DriverResults == { [kind |-> "result", v |-> "acknowledged"] }
DriverErrors  == { [cls |-> "DuplicateKeyError", msg |-> "E11000"],
                   [cls |-> "OperationFailure", msg |-> "not primary"] }

Event(ev, arg) == [ev |-> ev, arg |-> arg]

RunInit ==
    /\ cfg \in [use_transaction : BOOLEAN, support_transaction : BOOLEAN]
    /\ pc = "idle"
    /\ frame = Pending
    /\ events = <<>>
    /\ result = Pending
    /\ outcome = Pending
    /\ SortIdle
    /\ UniqIdle
    /\ ModelIdle

\* a collection method is called: capture_errors pops its keyword,
\* with_session pops no_session and chooses its branch
Call ==
    /\ pc = "idle"
    /\ \E method \in Methods, has_id \in BOOLEAN, own_session \in BOOLEAN,
          kw_capture \in KwCapture, kw_no_session \in KwNoSession :
           /\ method \notin {"save"} => has_id
           /\ method \in RunMethods => kw_capture = "absent"
           /\ frame' = [method |-> method,
                        action |-> driver_action(method, has_id),
                        capture_errors |-> kw_capture,
                        no_session |-> kw_no_session,
                        own_session |-> own_session,
                        captured |-> method \notin RunMethods
                                     /\ captures(kw_capture),
                        in_session |-> opens_session(kw_no_session, cfg)]
           /\ pc' = IF opens_session(kw_no_session, cfg)
                    THEN "start_session" ELSE "action"
    /\ events' = <<>>
    /\ result' = Pending
    /\ outcome' = Pending
    /\ UNCHANGED <<cfg, sort_vars, uniq_vars, model_vars>>

\* with cls.get_client().start_session() as sess:
StartSession ==
    /\ pc = "start_session"
    /\ events' = Append(events, Event("start_session", ""))
    /\ pc' = "start_transaction"
    /\ UNCHANGED <<cfg, frame, result, outcome,
                   sort_vars, uniq_vars, model_vars>>

\* with sess.start_transaction():
StartTransaction ==
    /\ pc = "start_transaction"
    /\ events' = Append(events, Event("start_transaction", ""))
    /\ pc' = "action"
    /\ UNCHANGED <<cfg, frame, result, outcome,
                   sort_vars, uniq_vars, model_vars>>

\* the session the action receives
action_session ==
    IF frame.in_session THEN session_kwarg(frame.own_session)
    ELSE IF frame.own_session THEN "own" ELSE "none"

\* return action(*args, **kwargs): the driver returns
ActionReturns ==
    /\ pc = "action"
    /\ \E r \in DriverResults : result' = [tag |-> "return", val |-> r]
    /\ events' = Append(events, Event(frame.action, action_session))
    /\ pc' = IF frame.in_session THEN "exit_transaction" ELSE "finish"
    /\ UNCHANGED <<cfg, frame, outcome, sort_vars, uniq_vars, model_vars>>

\* return action(*args, **kwargs): the driver raises
ActionRaises ==
    /\ pc = "action"
    /\ \E e \in DriverErrors : result' = [tag |-> "raise", exc |-> e]
    /\ events' = Append(events, Event(frame.action, action_session))
    /\ pc' = IF frame.in_session THEN "exit_transaction" ELSE "finish"
    /\ UNCHANGED <<cfg, frame, outcome, sort_vars, uniq_vars, model_vars>>

\* leaving `with sess.start_transaction()`: commit, or abort on an exception
ExitTransaction ==
    /\ pc = "exit_transaction"
    /\ events' = Append(events,
                   Event("end_transaction",
                         IF result.tag = "raise" THEN "abort" ELSE "commit"))
    /\ pc' = "exit_session"
    /\ UNCHANGED <<cfg, frame, result, outcome,
                   sort_vars, uniq_vars, model_vars>>

\* leaving `with ... start_session()`
ExitSession ==
    /\ pc = "exit_session"
    /\ events' = Append(events, Event("end_session", ""))
    /\ pc' = "finish"
    /\ UNCHANGED <<cfg, frame, result, outcome,
                   sort_vars, uniq_vars, model_vars>>

\* _run returns or raises into capture_errors (or into the method itself)
Finish ==
    /\ pc = "finish"
    /\ outcome' = capture_errors(frame.captured, result)
    /\ pc' = "done"
    /\ UNCHANGED <<cfg, frame, events, result,
                   sort_vars, uniq_vars, model_vars>>

\* the caller goes on
Resume ==
    /\ pc = "done"
    /\ pc' = "idle"
    /\ frame' = Pending
    /\ events' = <<>>
    /\ result' = Pending
    /\ outcome' = Pending
    /\ UNCHANGED <<cfg, sort_vars, uniq_vars, model_vars>>

RunNext ==
    \/ Call
    \/ StartSession
    \/ StartTransaction
    \/ ActionReturns
    \/ ActionRaises
    \/ ExitTransaction
    \/ ExitSession
    \/ Finish
    \/ Resume

SpecRun == RunInit /\ [][RunNext]_vars

\* ------------------------------------------------------------------------
\* Properties of the wrappers
\* ------------------------------------------------------------------------
IsWrite == frame.method \in WriteMethods \cup {"save", "destroy"}
Attempts == Cardinality({ i \in 1..Len(events) : events[i].ev = frame.action })

WriteOutcome(propagating) ==
    (pc = "done" /\ IsWrite) =>
        /\ Attempts = 1
        /\ result.tag = "return" => outcome = result
        /\ result.tag = "raise" =>
               IF frame.capture_errors \in propagating
               THEN outcome = result
               ELSE outcome = [tag |-> "return",
                               val |-> [kind |-> "str", v |-> result.exc.msg]]

\* C9 as stated: a write returns the driver's result unchanged, returns the
\* string of the driver's exception instead of raising it, attempts the
\* action exactly once, and lets the exception out only when the caller
\* passes capture_errors=False.
C9_OnlyFalsePropagates == WriteOutcome({"False"})

\* C9, amended: as above, but the exception propagates whenever the caller
\* passes a capture_errors that is false in a condition (False, None, ...).
C9_CaptureErrors == WriteOutcome({"False", "None"})

C9_Witness ==
    /\ pc = "done" /\ frame.method = "save" /\ frame.action = "insert_one"
    /\ frame.capture_errors = "absent"
    /\ result.tag = "raise" /\ result.exc.cls = "DuplicateKeyError"
    /\ outcome = [tag |-> "return", val |-> [kind |-> "str", v |-> "E11000"]]

EventNames == [i \in 1..Len(events) |-> events[i].ev]

Expected(with_tx) ==
    IF with_tx
    THEN <<"start_session", "start_transaction", frame.action,
           "end_transaction", "end_session">>
    ELSE <<frame.action>>

IsPrefix(p, q) == Len(p) <= Len(q) /\ p = SubSeq(q, 1, Len(p))

\* C10: the action is invoked exactly once; a session and a transaction
\* are opened only when no_session is not True and the class both uses and
\* supports transactions, in the order start session, start transaction,
\* action (with that session unless the caller gave its own), end
\* transaction, end session, whether the action returns or raises;
\* otherwise the action is invoked alone.
C10_WithSession ==
    (pc # "idle") =>
        LET with_tx == /\ frame.no_session # "True"
                       /\ cfg.use_transaction
                       /\ cfg.support_transaction
        IN  /\ IsPrefix(EventNames, Expected(with_tx))
            /\ pc = "done" => EventNames = Expected(with_tx)
            /\ \A i \in 1..Len(events) :
                   events[i].ev = frame.action =>
                       events[i].arg = IF frame.own_session THEN "own"
                                       ELSE IF with_tx THEN "sess"
                                       ELSE "none"

C10_Witness ==
    /\ pc = "done" /\ frame.no_session = "1" /\ ~frame.own_session
    /\ result.tag = "raise"
    /\ events = << Event("start_session", ""), Event("start_transaction", ""),
                   Event(frame.action, "sess"),
                   Event("end_transaction", "abort"),
                   Event("end_session", "") >>

====
